---- MODULE Spec2Model ----
(***************************************************************************)
(* MarketPanicDetector.run_backtest (src/app.py): alignment of the VIX     *)
(* series onto the stock's dates, the rolling indicators of                *)
(* calculate_technicals, the date filter and dropna, the row-by-row        *)
(* position simulation, and the returned (trades, stats) pair.             *)
(*                                                                         *)
(* Prices, volumes and VIX quotes are integers, on which every comparison  *)
(* the code makes is decided exactly:                                      *)
(*   MA20     is kept as the 20-row sum of Close      (20 * mean),         *)
(*   STD      is kept as 20*SumSq - Sum^2             (20*19 * variance),  *)
(*   Vol_MA20 is kept as the 20-row sum of Volume     (20 * mean),         *)
(*   RSI      is kept as the pair of 14-row gain and loss sums.            *)
(* A cell that pandas leaves NaN is the value NaN below.                   *)
(***************************************************************************)
EXTENDS Integers, Sequences, FiniteSets, TLC

VARIABLES stock_df, vix_df, start_date, pc, df, i, positions, trades, returned, stats

vars == <<stock_df, vix_df, start_date, pc, df, i, positions, trades, returned, stats>>

----------------------------------------------------------------------------
(* Program constants *)

window == 20
rsi_window == 14
band_width == 2
vix_threshold == 20
vol_multiplier == 2
buffer_days == 60

(* Bounds and input alphabets of the model *)

MaxTail == 3

PrefixLens == {18, 19}
TailBars == {[Close |-> 0, Volume |-> 9], [Close |-> 5, Volume |-> 9],
             [Close |-> 20, Volume |-> 9], [Close |-> 10, Volume |-> 1]}
VixDay == {<<>>, <<15>>, <<25>>}
StartDates == {2, 42}
QuietBar == [Close |-> 10, Volume |-> 1]

----------------------------------------------------------------------------
(* NaN cells *)

NaN == [nan |-> TRUE, v |-> 0]
Num(x) == [nan |-> FALSE, v |-> x]
isna(c) == c.nan

\* The cells lo..hi of a numeric column added up.
RECURSIVE Sum(_, _, _)
Sum(col, lo, hi) ==
    IF lo > hi THEN 0 ELSE col[hi] + Sum(col, lo, hi - 1)

\* The column of a frame as a sequence of cells.
Column(rows, name) == <<>> \o [k \in 1..Len(rows) |-> rows[k][name]]

\* Series.sum() of a boolean column over its first n rows.
RECURSIVE Count(_, _, _)
Count(rows, name, n) ==
    IF n <= 0 THEN 0 ELSE (IF rows[n][name] THEN 1 ELSE 0) + Count(rows, name, n - 1)

Max(a, b) == IF a >= b THEN a ELSE b

----------------------------------------------------------------------------
(* Alignment of the VIX closes onto the stock's dates *)

\* pd.Series(0, index=stock_df.index), replaced by vix_df['Close'] when the
\* VIX download is not empty.
vix_series ==
    IF vix_df = <<>>
    THEN [k \in 1..Len(stock_df) |-> [Date |-> stock_df[k].Date, Close |-> 0]]
    ELSE vix_df

\* Position method='bfill' would pick: the first label at or after the date.
RECURSIVE bfill_pos(_, _, _)
bfill_pos(series, date, j) ==
    IF j > Len(series) THEN 0
    ELSE IF series[j].Date >= date THEN j
    ELSE bfill_pos(series, date, j + 1)

bfill_from(series, date, j) == bfill_pos(series, date, 1)

\* Position method='ffill' picks in a sorted index: scanning back from j, the
\* last label at or before the date; 0 when there is none.
RECURSIVE ffill_pos(_, _, _)
ffill_pos(series, date, j) ==
    IF j = 0 THEN 0
    ELSE IF series[j].Date <= date THEN j
    ELSE ffill_pos(series, date, j - 1)

\* vix_series.reindex(stock_df.index, method='ffill')
aligned_vix(k) ==
    LET j == ffill_pos(vix_series, stock_df[k].Date, Len(vix_series))
    IN  IF j = 0 THEN NaN ELSE Num(vix_series[j].Close)

fillna(c, d) == IF isna(c) THEN d ELSE c.v

----------------------------------------------------------------------------
(* calculate_technicals *)

\* Series.rolling(window=w).sum() at row k: NaN until w rows are available.
rolling_sum(col, w, k) ==
    IF k < w THEN NaN ELSE Num(Sum(col, k - w + 1, k))

\* delta.where(delta > 0, 0): the NaN delta of the first row becomes 0.
gain(close) ==
    <<>> \o [k \in 1..Len(close) |->
                IF k = 1 THEN 0 ELSE Max(close[k] - close[k-1], 0)]
\* -delta.where(delta < 0, 0)
loss(close) ==
    <<>> \o [k \in 1..Len(close) |->
                IF k = 1 THEN 0 ELSE Max(close[k-1] - close[k], 0)]

\* RSI = 100 - 100 / (1 + gain/loss) = 100*gain / (gain + loss), kept as the
\* pair <<100*gain, gain + loss>>; 0/0 is NaN, gain/0 is inf and gives 100.
RSI(gains, losses, k) ==
    LET g == rolling_sum(gains, rsi_window, k)
        l == rolling_sum(losses, rsi_window, k)
    IN  IF isna(g) \/ (g.v = 0 /\ l.v = 0) THEN NaN
        ELSE Num(<<100 * g.v, g.v + l.v>>)

\* STD scaled: window*(window-1)*variance = window*SumSq - Sum^2.
STD(close, squares, k) ==
    LET s  == rolling_sum(close, window, k)
        ss == rolling_sum(squares, window, k)
    IN  IF isna(s) THEN NaN ELSE Num(window * ss.v - s.v * s.v)

calculate_technicals(rows) ==
    LET close   == Column(rows, "Close")
        squares == <<>> \o [k \in 1..Len(close) |-> close[k] * close[k]]
        volume  == Column(rows, "Volume")
        gains   == gain(close)
        losses  == loss(close)
    IN  <<>> \o [k \in 1..Len(rows) |->
        [Date     |-> rows[k].Date,
         Close    |-> rows[k].Close,
         Volume   |-> rows[k].Volume,
         VIX      |-> rows[k].VIX,
         MA20     |-> rolling_sum(close, window, k),
         STD      |-> STD(close, squares, k),
         Vol_MA20 |-> rolling_sum(volume, window, k),
         RSI      |-> RSI(gains, losses, k)]]

\* Upper = MA20 + 2*STD and Lower = MA20 - 2*STD are NaN exactly when MA20 or
\* STD is; the comparisons against them are decided on the scaled values:
\*   Close < MA20 - 2*STD  <=>  Sum - w*Close > 0  and
\*                              (w-1)*(Sum - w*Close)^2 > 4*w*(w*SumSq - Sum^2)
BandSq(r) == band_width * band_width * window * r.STD.v
Below(r) == r.MA20.v - window * r.Close
CloseBelowLower(r) ==
    Below(r) > 0 /\ (window - 1) * Below(r) * Below(r) > BandSq(r)
CloseAboveUpper(r) ==
    Below(r) < 0 /\ (window - 1) * Below(r) * Below(r) > BandSq(r)

\* dropna(subset=['RSI']): only the RSI cell is looked at.
notna_rsi_only(r) == ~isna(r.RSI)

\* A row survives df.dropna() when none of its cells is NaN.
notna_row(r) ==
    ~isna(r.MA20) /\ ~isna(r.STD) /\ ~isna(r.Vol_MA20) /\ ~isna(r.RSI)

----------------------------------------------------------------------------
(* run_backtest up to the simulation loop *)

fetch_start == start_date - buffer_days

\* df = stock_df.copy(); df['VIX'] = aligned_vix.fillna(0)
with_vix ==
    <<>> \o [k \in 1..Len(stock_df) |->
        [Date |-> stock_df[k].Date, Close |-> stock_df[k].Close,
         Volume |-> stock_df[k].Volume, VIX |-> fillna(aligned_vix(k), 0)]]

\* df = df[df.index >= start_datetime]; df = df.dropna()
InWindow(r) == r.Date >= start_date /\ notna_row(r)
filtered ==
    LET frame == with_vix
    IN  SelectSeq(calculate_technicals(frame), InWindow)

Check_Vol(r) == r.Volume * window > r.Vol_MA20.v * vol_multiplier
Check_Price(r) == CloseBelowLower(r)
Check_VIX(r) == r.VIX > vix_threshold
\* The three checks joined with | instead of &.
Signal_Buy_Any(r) == Check_Price(r) \/ Check_Vol(r) \/ Check_VIX(r)
Signal_Buy(r) == Check_Price(r) /\ Check_Vol(r) /\ Check_VIX(r)

with_checks(rows) ==
    [k \in 1..Len(rows) |->
        [Date |-> rows[k].Date, Close |-> rows[k].Close,
         Volume |-> rows[k].Volume, VIX |-> rows[k].VIX,
         MA20 |-> rows[k].MA20, STD |-> rows[k].STD,
         Vol_MA20 |-> rows[k].Vol_MA20, RSI |-> rows[k].RSI,
         Check_Vol |-> Check_Vol(rows[k]),
         Check_Price |-> Check_Price(rows[k]),
         Check_VIX |-> Check_VIX(rows[k]),
         Signal_Buy |-> Signal_Buy(rows[k])]]

----------------------------------------------------------------------------
(* The simulation loop *)

is_buy(today) == today.Signal_Buy
is_sell(today) ==
    CloseAboveUpper(today) /\ today.Check_Vol /\ today.VIX < vix_threshold

open_position(today) ==
    [entry_date |-> today.Date, entry_price |-> today.Close]

\* exit_date filled from the position instead of the row.
close_position_entry_date(pos, today) ==
    [entry_date   |-> pos.entry_date,
     exit_date    |-> pos.entry_date,
     entry_price  |-> pos.entry_price,
     exit_price   |-> today.Close,
     return       |-> <<today.Close - pos.entry_price, pos.entry_price>>,
     holding_days |-> pos.entry_date - pos.entry_date]

\* roi = (Close - entry_price) / entry_price is kept as numerator and
\* denominator; the entry_vix, exit_vix and volume display columns are left out.
close_position(pos, today) ==
    [entry_date   |-> pos.entry_date,
     exit_date    |-> today.Date,
     entry_price  |-> pos.entry_price,
     exit_price   |-> today.Close,
     return       |-> <<today.Close - pos.entry_price, pos.entry_price>>,
     holding_days |-> today.Date - pos.entry_date]

\* Only the oldest position is closed, though all are dropped.
liquidate_first(ps, today) ==
    [k \in 1..1 |-> [entry_date   |-> ps[k].entry_date,
                     exit_date    |-> today.Date,
                     entry_price  |-> ps[k].entry_price,
                     exit_price   |-> today.Close,
                     return       |-> <<today.Close - ps[k].entry_price, ps[k].entry_price>>,
                     holding_days |-> today.Date - ps[k].entry_date]]

liquidate(ps, today) == [k \in 1..Len(ps) |-> close_position(ps[k], today)]

\* A buy row opens a position only when none is open.
loop_body_capped(today, ps, ts) ==
    IF is_buy(today) /\ Len(ps) = 0 THEN <<Append(ps, open_position(today)), ts>>
    ELSE IF is_sell(today) /\ Len(ps) > 0 THEN <<<<>>, ts \o liquidate(ps, today)>>
    ELSE <<ps, ts>>

\* "elif len(positions) > 0": the sell signal is not tested.
loop_body_any_exit(today, ps, ts) ==
    IF is_buy(today) THEN <<Append(ps, open_position(today)), ts>>
    ELSE IF Len(ps) > 0 THEN <<<<>>, ts \o liquidate(ps, today)>>
    ELSE <<ps, ts>>

\* The body of "for i in range(len(df))": the new <<positions, trades>>.
loop_body(today, ps, ts) ==
    IF is_buy(today) THEN <<Append(ps, open_position(today)), ts>>
    ELSE IF is_sell(today) /\ Len(ps) > 0 THEN <<<<>>, ts \o liquidate(ps, today)>>
    ELSE <<ps, ts>>

\* The same body with the sell test placed before the buy test.
sell_first_body(today, ps, ts) ==
    IF is_sell(today) /\ Len(ps) > 0 THEN <<<<>>, ts \o liquidate(ps, today)>>
    ELSE IF is_buy(today) THEN <<Append(ps, open_position(today)), ts>>
    ELSE <<ps, ts>>

RECURSIVE max_vix(_, _)
max_vix(rows, n) ==
    IF n = 1 THEN rows[1].VIX ELSE Max(rows[n].VIX, max_vix(rows, n - 1))

NoStats == [total_days |-> 0, count_price |-> 0, count_vol |-> 0,
            count_vix |-> 0, count_all |-> 0, last_vol_ma |-> 0, max_vix |-> 0]

make_stats(rows) ==
    [total_days  |-> Len(rows),
     count_price |-> Count(rows, "Check_Price", Len(rows)),
     count_vol   |-> Count(rows, "Check_Vol", Len(rows)),
     count_vix   |-> Count(rows, "Check_VIX", Len(rows)),
     count_all   |-> Count(rows, "Signal_Buy", Len(rows)),
     last_vol_ma |-> IF rows # <<>> THEN rows[Len(rows)].Vol_MA20.v ELSE 0,
     max_vix     |-> IF rows # <<>> THEN max_vix(rows, Len(rows)) ELSE 0]

----------------------------------------------------------------------------
(* Inputs: what the two downloads return, and the start date *)

DateOf(k) == 2 * k

\* The stock's bars: a quiet prefix followed by the free tail.
bars(p, tail) ==
    [k \in 1..(p + Len(tail)) |->
        IF k <= p
        THEN [Date |-> DateOf(k), Close |-> QuietBar.Close, Volume |-> QuietBar.Volume]
        ELSE [Date |-> DateOf(k), Close |-> tail[k - p].Bar.Close,
              Volume |-> tail[k - p].Bar.Volume]]

\* The VIX rows: the quotes of the tail days that have one.
RECURSIVE quotes(_, _, _)
quotes(p, tail, k) ==
    IF k > Len(tail) THEN <<>>
    ELSE [j \in 1..Len(tail[k].Vix) |->
             [Date |-> DateOf(p + k), Close |-> tail[k].Vix[j]]]
         \o quotes(p, tail, k + 1)

DayKinds == [Bar : TailBars, Vix : VixDay]

Init ==
    /\ \/ stock_df = <<>> /\ vix_df = <<>>
       \/ \E p \in PrefixLens, n \in 0..MaxTail :
            \E tail \in [1..n -> DayKinds] :
               /\ stock_df = bars(p, tail)
               /\ vix_df = quotes(p, tail, 1)
    /\ start_date \in StartDates
    /\ \A k \in 1..Len(stock_df) : stock_df[k].Date >= fetch_start
    /\ pc = "download"
    /\ df = <<>>
    /\ i = 0
    /\ positions = <<>>
    /\ trades = <<>>
    /\ returned = "running"
    /\ stats = NoStats

----------------------------------------------------------------------------
(* Actions *)

\* if stock_df.empty: return None, None
DownloadEmpty ==
    /\ pc = "download"
    /\ stock_df = <<>>
    /\ pc' = "done"
    /\ returned' = "None"
    /\ UNCHANGED <<stock_df, vix_df, start_date, df, i, positions, trades, stats>>

\* The VIX download and alignment, calculate_technicals, the date filter and
\* dropna.
ComputeFrame ==
    /\ pc = "download"
    /\ stock_df # <<>>
    /\ df' = filtered
    /\ pc' = "filtered"
    /\ UNCHANGED <<stock_df, vix_df, start_date, i, positions, trades, returned, stats>>

\* No early return: an empty ledger and the statistics of the empty frame.
NoTradingRows_empty_ledger ==
    /\ pc = "filtered"
    /\ df = <<>>
    /\ pc' = "done"
    /\ returned' = "trades"
    /\ stats' = make_stats(df)
    /\ UNCHANGED <<stock_df, vix_df, start_date, df, i, positions, trades>>

\* if df.empty: return None, None
NoTradingRows ==
    /\ pc = "filtered"
    /\ df = <<>>
    /\ pc' = "done"
    /\ returned' = "None"
    /\ UNCHANGED <<stock_df, vix_df, start_date, df, i, positions, trades, stats>>

\* trades = []; positions = []; the Check_* and Signal_Buy columns
Prepare ==
    /\ pc = "filtered"
    /\ df # <<>>
    /\ df' = with_checks(df)
    /\ trades' = <<>>
    /\ positions' = <<>>
    /\ i' = 1
    /\ pc' = "loop"
    /\ UNCHANGED <<stock_df, vix_df, start_date, returned, stats>>

\* One iteration of the loop over the rows of df.
LoopIteration ==
    /\ pc = "loop"
    /\ i <= Len(df)
    /\ LET out == loop_body(df[i], positions, trades)
       IN  /\ positions' = out[1]
           /\ trades' = out[2]
    /\ i' = i + 1
    /\ UNCHANGED <<stock_df, vix_df, start_date, pc, df, returned, stats>>

\* The open positions are closed at the last row before returning.
Finish_autoclose ==
    /\ pc = "loop"
    /\ i > Len(df)
    /\ stats' = make_stats(df)
    /\ trades' = trades \o liquidate(positions, df[Len(df)])
    /\ positions' = <<>>
    /\ returned' = "trades"
    /\ pc' = "done"
    /\ UNCHANGED <<stock_df, vix_df, start_date, df, i>>

\* return pd.DataFrame(trades), stats
Finish ==
    /\ pc = "loop"
    /\ i > Len(df)
    /\ stats' = make_stats(df)
    /\ returned' = "trades"
    /\ pc' = "done"
    /\ UNCHANGED <<stock_df, vix_df, start_date, df, i, positions, trades>>

Next == DownloadEmpty \/ ComputeFrame \/ NoTradingRows \/ Prepare \/ LoopIteration \/ Finish

Spec == Init /\ [][Next]_vars

----------------------------------------------------------------------------
(* Properties *)

\* The loop is at row i of df, about to run its body on it.
AtRow == pc = "loop" /\ i <= Len(df)

\* The loop has run on rows 1..i-1 (and run_backtest may have returned them).
Simulated == pc = "loop" \/ (pc = "done" /\ returned = "trades")

Range(seq) == {seq[k] : k \in 1..Len(seq)}

\* C1: a row with the sell signal and at least one open position closes every
\* open position: one Trade per position, in order, each with the row's date and
\* Close as exit, appended to the ledger; no position stays open; the trades of
\* one liquidation have pairwise different entry dates.
C1_SellClosesAll ==
    [][(AtRow /\ is_sell(df[i]) /\ Len(positions) > 0) =>
         /\ positions' = <<>>
         /\ Len(trades') = Len(trades) + Len(positions)
         /\ SubSeq(trades', 1, Len(trades)) = trades
         /\ \A k \in 1..Len(positions) :
              LET t == trades'[Len(trades) + k]
              IN  /\ t.exit_date = df[i].Date
                  /\ t.exit_price = df[i].Close
                  /\ t.entry_date = positions[k].entry_date
                  /\ t.entry_price = positions[k].entry_price
         /\ \A j, k \in 1..Len(positions) :
              j # k => trades'[Len(trades) + j].entry_date
                         # trades'[Len(trades) + k].entry_date]_vars

\* Two buy rows and then a sell row: two trades with one exit and two entries.
C1_Witness ==
    /\ Simulated
    /\ Len(trades) >= 2
    /\ positions = <<>>
    /\ trades[1].exit_date = trades[2].exit_date
    /\ trades[1].exit_price = trades[2].exit_price
    /\ trades[1].entry_date # trades[2].entry_date

\* C2: a row with the buy signal appends exactly one position, entered at the
\* row's date and Close, however many positions are already open, and leaves
\* the ledger alone.
C2_BuyAlwaysAppends ==
    [][(AtRow /\ is_buy(df[i])) =>
         /\ positions' = Append(positions,
                [entry_date |-> df[i].Date, entry_price |-> df[i].Close])
         /\ trades' = trades]_vars

\* Two positions open at once, each entered on a buy row.
C2_Witness ==
    /\ Simulated
    /\ Len(positions) >= 2
    /\ \A k \in 1..Len(positions) :
         \E j \in 1..(i - 1) : df[j].Signal_Buy /\ df[j].Date = positions[k].entry_date

\* C3: a row with the sell signal and no open position, or with neither
\* signal, leaves the open positions and the ledger as they were.
C3_IdleRowChangesNothing ==
    [][(AtRow /\ \/ is_sell(df[i]) /\ Len(positions) = 0
                 \/ ~is_buy(df[i]) /\ ~is_sell(df[i])) =>
         positions' = positions /\ trades' = trades]_vars

\* A sell row has just been passed with nothing open, and an idle row with a
\* position open.
C3_Witness ==
    /\ Simulated
    /\ \E j \in 1..(i - 1) :
         is_sell(df[j]) /\ \A k \in 1..j : ~df[k].Signal_Buy
    /\ \E j \in 1..(i - 1) :
         /\ ~is_sell(df[j]) /\ ~df[j].Signal_Buy
         /\ \E p \in 1..Len(positions) : positions[p].entry_date < df[j].Date

\* C4: every trade leaves strictly after it entered: exit_date > entry_date and
\* holding_days > 0.
C4_ExitAfterEntry ==
    \A t \in Range(trades) :
        t.exit_date > t.entry_date /\ t.holding_days > 0

C4_Witness == Simulated /\ Len(trades) >= 1

\* C5: every trade has entry_price > 0 (the bars' prices being non-negative).
C5_EntryPricePositive ==
    \A t \in Range(trades) : t.entry_price > 0

\* C6: open positions are never turned into trades except by a sell row: at
\* every point trades + open positions = buy rows so far, the trades are exactly
\* the buy rows with a later sell row, each trade exits on a sell row, and this
\* still holds of what run_backtest returns.
LaterSell(j) == \E k \in (j + 1)..(i - 1) : is_sell(df[k])
C6_OpenPositionsStayOpen ==
    Simulated =>
      /\ Len(trades) + Len(positions) = Count(df, "Signal_Buy", i - 1)
      /\ Len(trades) =
            Cardinality({j \in 1..(i - 1) : df[j].Signal_Buy /\ LaterSell(j)})
      /\ \A t \in Range(trades) :
            \E k \in 1..(i - 1) : df[k].Date = t.exit_date /\ is_sell(df[k])
      /\ \A p \in Range(positions) :
            \E j \in 1..(i - 1) :
               df[j].Date = p.entry_date /\ df[j].Signal_Buy /\ ~LaterSell(j)

\* run_backtest has returned a ledger while a position is still open.
C6_Witness ==
    /\ pc = "done"
    /\ returned = "trades"
    /\ Len(trades) >= 1
    /\ Len(positions) >= 1

\* C7: the VIX of every stock date is the close of the latest VIX row dated at
\* or before it, never of a later one, and 0 when there is none; the rows of df
\* carry that value.
QuotesUpTo(d) == {q \in Range(vix_df) : q.Date <= d}
LatestQuote(d) ==
    CHOOSE q \in QuotesUpTo(d) : \A r \in QuotesUpTo(d) : r.Date <= q.Date
ExpectedVIX(d) == IF QuotesUpTo(d) = {} THEN 0 ELSE LatestQuote(d).Close
C7_VixIsLatestPastQuote ==
    /\ pc = "download" =>
         \A k \in 1..Len(stock_df) :
            fillna(aligned_vix(k), 0) = ExpectedVIX(stock_df[k].Date)
    /\ pc # "download" =>
         \A r \in Range(df) : r.VIX = ExpectedVIX(r.Date)

\* A row of df filled forward from an earlier day while a later quote exists,
\* and a stock date before the first quote.
C7_Witness ==
    /\ pc = "filtered"
    /\ \E r \in Range(df) :
         /\ \A q \in Range(vix_df) : q.Date # r.Date
         /\ \E q \in Range(vix_df) : q.Date < r.Date /\ q.Close = r.VIX
         /\ \E q \in Range(vix_df) : q.Date > r.Date /\ q.Close # r.VIX
    /\ \E k \in 1..Len(stock_df) : QuotesUpTo(stock_df[k].Date) = {}

\* C8: every row of df has at least 19 bars before it and no NaN indicator;
\* positions and trades only start and end on such rows; an input shorter than
\* the 20-bar window ends with no ledger and no trade.
StockIndex(d) == CHOOSE k \in 1..Len(stock_df) : stock_df[k].Date = d
WarmedUp(d) ==
    /\ \E k \in 1..Len(stock_df) : stock_df[k].Date = d
    /\ StockIndex(d) >= window
C8_NoSignalInWarmUp ==
    /\ \A r \in Range(df) : WarmedUp(r.Date) /\ notna_row(r)
    /\ \A p \in Range(positions) : WarmedUp(p.entry_date)
    /\ \A t \in Range(trades) : WarmedUp(t.entry_date) /\ WarmedUp(t.exit_date)
    /\ Len(stock_df) < window =>
         /\ positions = <<>> /\ trades = <<>>
         /\ pc # "loop"
         /\ pc = "done" => returned = "None"

\* A crash bar with a VIX above the threshold inside the warm-up, in a run that
\* was simulated to the end.
C8_Witness ==
    /\ pc = "done"
    /\ returned = "trades"
    /\ \E k \in 1..(window - 1) :
         /\ stock_df[k].Close < QuietBar.Close
         /\ stock_df[k].Volume > QuietBar.Volume
         /\ \E q \in Range(vix_df) :
              q.Date = stock_df[k].Date /\ q.Close > vix_threshold

\* C9 as stated: with no bar at all, or no row left after the date filter and
\* dropna, run_backtest returns an empty ledger and diagnostics of zero days.
C9_EmptyLedgerWithDiagnostics ==
    (pc = "done" /\ df = <<>>) =>
        returned = "trades" /\ trades = <<>> /\ stats.total_days = 0

\* C9 amended: with no bar at all, or no row left after the date filter and
\* dropna, run_backtest returns (None, None), neither ledger nor diagnostics; it
\* returns a ledger with diagnostics exactly when at least one row was
\* simulated, and total_days is then the number of simulated rows.
C9_NoneWithoutRows ==
    pc = "done" =>
      /\ returned \in {"None", "trades"}
      /\ returned = "None" <=> df = <<>>
      /\ returned = "None" => trades = <<>> /\ stats = NoStats
      /\ returned = "trades" => stats.total_days = Len(df) /\ stats.total_days >= 1

\* An empty download has been answered.
C9_Witness == pc = "done" /\ stock_df = <<>> /\ returned = "None"

\* C10: no row of df has both signals, so testing sell before buy gives the
\* same positions and ledger as the loop's buy-before-sell.
C10_SignalsExclusive ==
    Simulated =>
      /\ \A r \in Range(df) : ~(is_buy(r) /\ is_sell(r))
      /\ AtRow => loop_body(df[i], positions, trades)
                    = sell_first_body(df[i], positions, trades)

\* A sell row reached with a position open, after a buy row reached with one.
C10_Witness ==
    /\ AtRow
    /\ is_sell(df[i])
    /\ Len(positions) >= 2

====
